---- MODULE Spec2Model ----
(***************************************************************************)
(* A model of the demand-data generators and the patcher of                *)
(* subwaybuilder-patcher:                                                  *)
(*                                                                         *)
(*   - download_census_data.js: per configured place, census blocks are    *)
(*     fetched, given job counts, filtered, aggregated into clusters,      *)
(*     turned into commute flows by a gravity model and written as         *)
(*     demand_data.json.  The places are processed one after the other by  *)
(*     a top-level `for ... await` loop.                                   *)
(*   - process_data.js: the OSM based generator, which starts one async    *)
(*     task per place and numbers airport terminals and universities with  *)
(*     two module-level counters.                                          *)
(*   - patch_game.js: the configured packages are imported and their       *)
(*     patcherExec functions applied to the game files through a chain of  *)
(*     Promise callbacks, after which the files are written back.          *)
(*                                                                         *)
(* Numbers.  Populations, jobs and distances (meters) are integers.        *)
(* Centroids are named locations; Dist gives the great-circle distance     *)
(* turf.distance returns for each pair.  Attractiveness is a rational      *)
(* number kept as an integer count of 1/LocalJobBonusInv units; square     *)
(* roots are taken in hundredths, which is exact for 2500 and 10000 and    *)
(* within 0.01 otherwise.  Math.round is round-half-up on these rationals  *)
(* (the code rounds IEEE doubles).                                         *)
(***************************************************************************)
EXTENDS Integers, Sequences, FiniteSets, TLC

\* Bounds of the model.
MaxBlocks == 3
MaxPlaces == 2
MaxPackages == 3

\* TUNING_PARAMS and the other literals of download_census_data.js.
jobRatioPct == 95
clusterThresholdMeters == 300
gravityMinDistance == 2500
LocalJobBonusInv == 1000
minFlowSize == 5
minJobsPerBlock == 5
minPopPerBlock == 10
SplitCap == 400
SecondsPer100m == 12

VARIABLES
    places,          \* config.places: the place codes, in configuration order
    world,           \* what the external sources hold for each place
    TUNING_PARAMS,   \* the two tuning parameters the model varies
    placeIdx,        \* position of the top-level loop in config.places
    pc,              \* where the census script is
    blocks,          \* fetchCensusData: blocks
    employmentData,  \* fetchCensusData: employmentData (geoid -> jobs)
    activeBlocks,    \* fetchCensusData: activeBlocks
    sortedBlocks,    \* aggregateBlocks: sortedBlocks
    aggIdx,          \* aggregateBlocks: index of the next block of sortedBlocks
    clusters,        \* aggregateBlocks: clusters
    adjustedPopulation, \* generateCommuteFlows: adjustedPopulation (geoid -> n)
    flows,           \* fetchCensusData: flows
    disk,            \* processed_data/<code>/demand_data.json, per place
    outcome,         \* the success / error line logged for each place
    rawPlaces,       \* process_data.js: places.json of each place
    terminalTicker,  \* process_data.js: module-level counter
    uniTicker,       \* process_data.js: module-level counter
    task,            \* process_data.js: where the async task of each place is
    processed,       \* process_data.js: demand_data.json, per place
    packagesToRun,   \* patch_game.js: config.packagesToRun
    patchPc,         \* patch_game.js: where the script is
    fileContents,    \* patch_game.js: fileContents
    invoked,         \* patch_game.js: number of callbacks of `sequence` that ran
    received,        \* patch_game.js: the argument of each patcherExec call
    pending,         \* patch_game.js: the unsettled Promise a patcherExec returned
    written          \* patch_game.js: what writeFileSync put into the public directory

censusVars == <<placeIdx, pc, blocks, employmentData, activeBlocks, sortedBlocks,
                aggIdx, clusters, adjustedPopulation, flows, disk, outcome>>
connVars == <<rawPlaces, terminalTicker, uniTicker, task, processed>>
patchVars == <<packagesToRun, patchPc, fileContents, invoked, received, pending,
               written>>
vars == <<places, world, TUNING_PARAMS, censusVars, connVars, patchVars>>

----------------------------------------------------------------------------
\* Arithmetic helpers

Max(a, b) == IF a >= b THEN a ELSE b

MinOf(S) == CHOOSE x \in S : \A y \in S : x <= y

\* Math.round(n / d) for n >= 0, d > 0
Round(n, d) == (2 * n + d) \div (2 * d)

\* Math.ceil(n / d) for n >= 0, d > 0
Ceil(n, d) == (n + d - 1) \div d

\* The integer square root of n > 0, by Newton's iteration from r >= sqrt(n)
RECURSIVE Newton(_, _)
Newton(n, r) ==
    LET s == (r + n \div r) \div 2
    IN  IF s >= r THEN r ELSE Newton(n, s)

\* Math.pow(x, TUNING_PARAMS.gravityExponent) with gravityExponent = 0.5, in
\* hundredths and rounded down: Sqrt(2500) = 5000, Sqrt(4000) = 6324
Sqrt(x) == Newton(x * 10000, x * 10000)

RECURSIVE SumSeq(_)
SumSeq(s) == IF s = <<>> THEN 0 ELSE s[1] + SumSeq(Tail(s))

Range(s) == {s[i] : i \in DOMAIN s}

----------------------------------------------------------------------------
\* Geometry

Locs == {"A", "B", "C", "F"}

\* A second group of locations, on a line: P, R and Q lie 1000 m, 2000 m and
\* 4000 m from O
ScenarioLocs == {"O", "P", "R", "Q"}

\* turf.distance(p, q, {units: 'meters'}): A, B, C lie 200 m apart on a line,
\* F lies 10 km away from all three, and so does every other pair of
\* locations from different groups.
Dist(p, q) ==
    IF p = q THEN 0
    ELSE IF {p, q} \in {{"A", "B"}, {"B", "C"}} THEN 200
    ELSE IF {p, q} = {"A", "C"} THEN 400
    ELSE IF {p, q} \in {{"O", "P"}, {"P", "R"}} THEN 1000
    ELSE IF {p, q} \in {{"O", "R"}, {"R", "Q"}} THEN 2000
    ELSE IF {p, q} = {"P", "Q"} THEN 3000
    ELSE IF {p, q} = {"O", "Q"} THEN 4000
    ELSE 10000

\* turf.nearestPoint(target, points): the index of the first point at the
\* least distance
NearestPoint(target, points) ==
    MinOf({i \in DOMAIN points :
             \A j \in DOMAIN points :
                Dist(target, points[i].centroid) <= Dist(target, points[j].centroid)})

----------------------------------------------------------------------------
\* getCensusBlocksInBbox

RECURSIVE ParseBlocks(_)
ParseBlocks(features) ==
    IF features = <<>> THEN <<>>
    ELSE LET props == features[1]
         IN  IF props.INTPT = "NaN"
             THEN ParseBlocks(Tail(features))
             ELSE <<[geoid |-> props.GEOID,
                     centroid |-> props.INTPT,
                     population |-> props.POP100]>> \o ParseBlocks(Tail(features))

----------------------------------------------------------------------------
\* estimateEmploymentData

JobsOf(emp, geoid) == IF geoid \in DOMAIN emp THEN emp[geoid] ELSE 0

fipsToPostal == {"06", "36", "48", "12", "17", "42", "39", "13", "37", "26"}

Geoids(bs) == {bs[i].geoid : i \in DOMAIN bs}

LodesEmployment(bs, realJobCounts) ==
    [g \in Geoids(bs) |-> JobsOf(realJobCounts, g)]

TotalJobs(emp) ==
    LET RECURSIVE Sum(_)
        Sum(S) == IF S = {} THEN 0
                  ELSE LET g == CHOOSE x \in S : TRUE IN emp[g] + Sum(S \ {g})
    IN  Sum(DOMAIN emp)

\* The capacity heuristic: each building's share of the target goes to its
\* nearest block; the per-block sums are rounded at the end.
CapacityEmployment(bs, osmBuildings) ==
    LET totalPopulation == SumSeq([i \in DOMAIN bs |-> bs[i].population])
        targetTotalJobs == Round(totalPopulation * jobRatioPct, 100)
        totalCapacity == SumSeq([i \in DOMAIN osmBuildings |-> osmBuildings[i].capacity])
        capOf(g) == SumSeq([i \in DOMAIN osmBuildings |->
                       IF bs[NearestPoint(osmBuildings[i].centroid, bs)].geoid = g
                       THEN osmBuildings[i].capacity ELSE 0])
    IN  [g \in Geoids(bs) |-> Round(capOf(g) * targetTotalJobs, totalCapacity)]

UniformEmployment(bs) ==
    LET last(g) == CHOOSE i \in DOMAIN bs :
                      /\ bs[i].geoid = g
                      /\ \A j \in DOMAIN bs : bs[j].geoid = g => j <= i
    IN  [g \in Geoids(bs) |-> Round(bs[last(g)].population * jobRatioPct, 100)]

HeuristicEmployment(bs, area) ==
    IF Len(area.buildings) > 0
    THEN CapacityEmployment(bs, area.buildings)
    ELSE UniformEmployment(bs)

EstimateEmployment(bs, area) ==
    IF bs = <<>> \/ area.stateFips \notin fipsToPostal
    THEN HeuristicEmployment(bs, area)
    ELSE LET emp == LodesEmployment(bs, area.lodes)
         IN  IF TotalJobs(emp) = 0 THEN HeuristicEmployment(bs, area) ELSE emp

----------------------------------------------------------------------------
\* fetchCensusData, step 2.5

\* A filter that keeps every block
AlwaysActive(b, emp) == TRUE

IsActive(b, emp) == b.population > 0 \/ JobsOf(emp, b.geoid) > 0

ActiveBlocks(bs, emp) == SelectSeq(bs, LAMBDA b : IsActive(b, emp))

\* A check that never throws
NeverNoActiveData(active) == FALSE

\* `if (activeBlocks.length === 0) throw new Error('No populated or employed
\* census blocks found ...')`
NoActiveData(active) == Len(active) = 0

----------------------------------------------------------------------------
\* aggregateBlocks

\* An insertion that puts a block before the blocks of equal population
InsertBeforeEqual(sorted, block) ==
    LET k == Cardinality({i \in DOMAIN sorted :
                            sorted[i].population > block.population})
    IN  SubSeq(sorted, 1, k) \o <<block>> \o SubSeq(sorted, k + 1, Len(sorted))

\* One insertion of Array.prototype.sort with (a, b) => b.population -
\* a.population: the sort is stable, so a block goes behind every block of
\* greater or equal population that came before it.
InsertByPopulation(sorted, block) ==
    LET k == Cardinality({i \in DOMAIN sorted :
                            sorted[i].population >= block.population})
    IN  SubSeq(sorted, 1, k) \o <<block>> \o SubSeq(sorted, k + 1, Len(sorted))

RECURSIVE SortByPopulation(_)
SortByPopulation(bs) ==
    IF bs = <<>> THEN <<>>
    ELSE InsertByPopulation(SortByPopulation(SubSeq(bs, 1, Len(bs) - 1)), bs[Len(bs)])

\* distance <= thresholdMeters
WithinOrAtThreshold(block, cluster, thresholdMeters) ==
    Dist(block.centroid, cluster.centroid) <= thresholdMeters

\* distance < thresholdMeters
WithinThreshold(block, cluster, thresholdMeters) ==
    Dist(block.centroid, cluster.centroid) < thresholdMeters

\* The last qualifying cluster: a loop without the break
LastQualifying(Q) == CHOOSE x \in Q : \A y \in Q : y <= x

\* `for (const cluster of clusters) { if (...) { ...; break; } }`
FirstQualifying(Q) == MinOf(Q)

\* A merge that forgets the jobs of the joining block
JoinClusterWithoutJobs(cluster, block, emp) ==
    [cluster EXCEPT !.subBlocks = Append(@, block),
                    !.population = @ + block.population]

\* A merge that moves the cluster to the joining block
JoinClusterMovingCentroid(cluster, block, emp) ==
    [cluster EXCEPT !.subBlocks = Append(@, block),
                    !.population = @ + block.population,
                    !.jobs = @ + JobsOf(emp, block.geoid),
                    !.centroid = block.centroid]

\* A merge that takes the joining block's jobs off the cluster's
JoinClusterSubtractingJobs(cluster, block, emp) ==
    [cluster EXCEPT !.subBlocks = Append(@, block),
                    !.population = @ + block.population,
                    !.jobs = @ - JobsOf(emp, block.geoid)]

\* Merge into cluster: the seed's geoid and centroid are kept.
JoinCluster(cluster, block, emp) ==
    [cluster EXCEPT !.subBlocks = Append(@, block),
                    !.population = @ + block.population,
                    !.jobs = @ + JobsOf(emp, block.geoid)]

NewCluster(block, emp) ==
    [geoid |-> block.geoid,
     centroid |-> block.centroid,
     population |-> block.population,
     jobs |-> JobsOf(emp, block.geoid),
     subBlocks |-> <<block>>]

\* The body of sortedBlocks.forEach
AggregateBlock(cs, block, emp, thresholdMeters) ==
    LET Q == {i \in DOMAIN cs : WithinThreshold(block, cs[i], thresholdMeters)}
    IN  IF Q = {}
        THEN Append(cs, NewCluster(block, emp))
        ELSE [cs EXCEPT ![FirstQualifying(Q)] = JoinCluster(@, block, emp)]

ClusterEmployment(cs) ==
    LET last(g) == CHOOSE i \in DOMAIN cs :
                      /\ cs[i].geoid = g
                      /\ \A j \in DOMAIN cs : cs[j].geoid = g => j <= i
    IN  [g \in Geoids(cs) |-> cs[last(g)].jobs]

----------------------------------------------------------------------------
\* generateCommuteFlows

\* A low-population test with a threshold of its own, below minPopPerBlock
IsLowPopBelowJobsMinimum(b) == b.population > 0 /\ b.population < minJobsPerBlock

IsLowPop(b) == b.population > 0 /\ b.population < minPopPerBlock
IsNormal(b) == b.population >= minPopPerBlock

InitialAdjusted(bs) ==
    LET last(g) == CHOOSE i \in DOMAIN bs :
                      /\ bs[i].geoid = g
                      /\ \A j \in DOMAIN bs : bs[j].geoid = g => j <= i
    IN  [g \in Geoids(bs) |-> bs[last(g)].population]

\* A merge that leaves the low block its population
RECURSIVE MergeLowPopKeeping(_, _, _)
MergeLowPopKeeping(adjusted, lowPopBlocks, normalBlocks) ==
    IF lowPopBlocks = <<>> THEN adjusted
    ELSE LET lowBlock == lowPopBlocks[1]
             nearestGeoid == normalBlocks[NearestPoint(lowBlock.centroid, normalBlocks)].geoid
         IN  MergeLowPopKeeping([adjusted EXCEPT ![nearestGeoid] = @ + lowBlock.population],
                                Tail(lowPopBlocks), normalBlocks)

\* A merge that zeroes the low block without transferring its population
RECURSIVE MergeLowPopDropping(_, _, _)
MergeLowPopDropping(adjusted, lowPopBlocks, normalBlocks) ==
    IF lowPopBlocks = <<>> THEN adjusted
    ELSE MergeLowPopDropping([adjusted EXCEPT ![lowPopBlocks[1].geoid] = 0],
                             Tail(lowPopBlocks), normalBlocks)

\* lowPopBlocks.forEach: transfer the population to the nearest normal block
RECURSIVE MergeLowPop(_, _, _)
MergeLowPop(adjusted, lowPopBlocks, normalBlocks) ==
    IF lowPopBlocks = <<>> THEN adjusted
    ELSE LET lowBlock == lowPopBlocks[1]
             nearestGeoid == normalBlocks[NearestPoint(lowBlock.centroid, normalBlocks)].geoid
             moved == [adjusted EXCEPT ![nearestGeoid] = @ + lowBlock.population]
         IN  MergeLowPop([moved EXCEPT ![lowBlock.geoid] = 0],
                         Tail(lowPopBlocks), normalBlocks)

AdjustedPopulation(bs) ==
    LET lowPopBlocks == SelectSeq(bs, IsLowPop)
        normalBlocks == SelectSeq(bs, IsNormal)
    IN  IF Len(normalBlocks) > 0
        THEN MergeLowPop(InitialAdjusted(bs), lowPopBlocks, normalBlocks)
        ELSE InitialAdjusted(bs)

\* Attractiveness, in units of 1/LocalJobBonusInv
LocalAttractiveness(sameAreaJobs) == sameAreaJobs

\* An attractiveness that ignores the distance
GravityAttractivenessFlat(destJobs, distance) ==
    (destJobs * LocalJobBonusInv * 100) \div Sqrt(gravityMinDistance)

\* An attractiveness without the floor on the distance
GravityAttractivenessUnfloored(destJobs, distance) ==
    (destJobs * LocalJobBonusInv * 100) \div Sqrt(distance)

GravityAttractiveness(destJobs, distance) ==
    (destJobs * LocalJobBonusInv * 100) \div Sqrt(Max(distance, gravityMinDistance))

\* A destination test that asks for any job at all
HasJobs(origin, dest, emp) == JobsOf(emp, dest.geoid) > 0

\* Is dest a candidate destination of origin (a potentialFlows entry)?
IsCandidate(origin, dest, emp) ==
    IF origin.geoid = dest.geoid
    THEN JobsOf(emp, dest.geoid) > 0
    ELSE JobsOf(emp, dest.geoid) >= minJobsPerBlock

\* An entry that records the floored distance
PotentialFlowFloored(origin, dest, emp) ==
    LET distance == Max(Dist(origin.centroid, dest.centroid), gravityMinDistance)
    IN  [dest |-> dest.geoid,
         jobs |-> JobsOf(emp, dest.geoid),
         distance |-> distance,
         attractiveness |->
             IF origin.geoid = dest.geoid
             THEN LocalAttractiveness(JobsOf(emp, dest.geoid))
             ELSE GravityAttractiveness(JobsOf(emp, dest.geoid), distance)]

PotentialFlow(origin, dest, emp) ==
    IF origin.geoid = dest.geoid
    THEN [dest |-> dest.geoid,
          jobs |-> JobsOf(emp, dest.geoid),
          distance |-> 0,
          attractiveness |-> LocalAttractiveness(JobsOf(emp, dest.geoid))]
    ELSE [dest |-> dest.geoid,
          jobs |-> JobsOf(emp, dest.geoid),
          distance |-> Dist(origin.centroid, dest.centroid),
          attractiveness |->
              GravityAttractiveness(JobsOf(emp, dest.geoid),
                                    Dist(origin.centroid, dest.centroid))]

RECURSIVE PotentialFlows(_, _, _)
PotentialFlows(origin, dests, emp) ==
    IF dests = <<>> THEN <<>>
    ELSE IF IsCandidate(origin, dests[1], emp)
         THEN <<PotentialFlow(origin, dests[1], emp)>>
                  \o PotentialFlows(origin, Tail(dests), emp)
         ELSE PotentialFlows(origin, Tail(dests), emp)

TotalAttractiveness(potentialFlows) ==
    SumSeq([i \in DOMAIN potentialFlows |-> potentialFlows[i].attractiveness])

FlowSize(originPop, flow, totalAttractiveness) ==
    Round(originPop * flow.attractiveness, totalAttractiveness)

\* A filter that keeps every non-empty allocation
IsPositive(flowSize, minFlow) == flowSize > 0

\* Only include significant flows
IsSignificant(flowSize, minFlow) == flowSize >= minFlow

\* A split count rounded to the nearest integer instead of up
SplitsRounded(flowSize) == Max(Round(flowSize, SplitCap), 1)

Splits(flowSize) == Ceil(flowSize, SplitCap)

SizePerSplit(flowSize) == Round(flowSize, Splits(flowSize))

\* `for (let i = 0; i < splits; i++) { flows.push(...); flowId++; }`
\* acc = [flows, flowId]
RECURSIVE PushSplits(_, _, _, _, _)
PushSplits(acc, origin, flow, sizePerSplit, n) ==
    IF n = 0 THEN acc
    ELSE PushSplits(
           [flows |-> Append(acc.flows,
                        [id |-> ToString(acc.flowId),
                         residenceId |-> origin.geoid,
                         jobId |-> flow.dest,
                         size |-> sizePerSplit,
                         drivingDistance |-> flow.distance,
                         drivingSeconds |-> Round(flow.distance * SecondsPer100m, 100)]),
            flowId |-> acc.flowId + 1],
           origin, flow, sizePerSplit, n - 1)

\* potentialFlows.forEach
RECURSIVE Distribute(_, _, _, _, _, _)
Distribute(acc, origin, originPop, potentialFlows, total, minFlow) ==
    IF potentialFlows = <<>> THEN acc
    ELSE LET flow == potentialFlows[1]
             flowSize == FlowSize(originPop, flow, total)
             next == IF IsSignificant(flowSize, minFlow)
                     THEN PushSplits(acc, origin, flow,
                                     SizePerSplit(flowSize), Splits(flowSize))
                     ELSE acc
         IN  Distribute(next, origin, originPop, Tail(potentialFlows), total, minFlow)

\* An origin test that lets every populated block through
IsOriginAny(originPop) == originPop > 0

IsOrigin(originPop) == originPop >= minPopPerBlock

\* blocks.forEach(origin => ...)
RECURSIVE FlowsFrom(_, _, _, _, _, _)
FlowsFrom(acc, origins, bs, emp, adjusted, minFlow) ==
    IF origins = <<>> THEN acc
    ELSE LET origin == origins[1]
             originPop == adjusted[origin.geoid]
             potentialFlows == PotentialFlows(origin, bs, emp)
             total == TotalAttractiveness(potentialFlows)
             next == IF IsOrigin(originPop) /\ total # 0
                     THEN Distribute(acc, origin, originPop, potentialFlows, total, minFlow)
                     ELSE acc
         IN  FlowsFrom(next, Tail(origins), bs, emp, adjusted, minFlow)

GenerateCommuteFlows(bs, emp, minFlow) ==
    FlowsFrom([flows |-> <<>>, flowId |-> 0], bs, bs, emp,
              AdjustedPopulation(bs), minFlow).flows

----------------------------------------------------------------------------
\* formatDemandData

\* A scan that lists the flows leaving the block, then those arriving
PopIdsByRole(block, fl) ==
    LET out == SelectSeq(fl, LAMBDA f : f.residenceId = block.geoid)
        in == SelectSeq(fl, LAMBDA f : f.jobId = block.geoid)
    IN  [i \in DOMAIN out |-> out[i].id] \o [i \in DOMAIN in |-> in[i].id]

PopIds(block, fl) ==
    LET mine == SelectSeq(fl, LAMBDA f : f.residenceId = block.geoid
                                          \/ f.jobId = block.geoid)
    IN  [i \in DOMAIN mine |-> mine[i].id]

\* Points for the populated blocks only
PopulatedPoints(bs, emp, fl) ==
    LET populated == SelectSeq(bs, LAMBDA b : b.population > 0)
    IN  [i \in DOMAIN populated |->
            [id |-> populated[i].geoid,
             location |-> populated[i].centroid,
             jobs |-> JobsOf(emp, populated[i].geoid),
             residents |-> populated[i].population,
             popIds |-> PopIds(populated[i], fl)]]

\* Points that report the adjusted population
PointsWithAdjusted(bs, emp, fl) ==
    [i \in DOMAIN bs |->
        [id |-> bs[i].geoid,
         location |-> bs[i].centroid,
         jobs |-> JobsOf(emp, bs[i].geoid),
         residents |-> AdjustedPopulation(bs)[bs[i].geoid],
         popIds |-> PopIds(bs[i], fl)]]

Points(bs, emp, fl) ==
    [i \in DOMAIN bs |->
        [id |-> bs[i].geoid,
         location |-> bs[i].centroid,
         jobs |-> JobsOf(emp, bs[i].geoid),
         residents |-> bs[i].population,
         popIds |-> PopIds(bs[i], fl)]]

FormatDemandData(bs, emp, fl) ==
    [points |-> Points(bs, emp, fl), pops |-> fl]

----------------------------------------------------------------------------
\* The census script: the top-level loop and fetchCensusData

place == places[placeIdx]

\* patch_game.js is not running
NoPatch ==
    /\ packagesToRun = <<>>
    /\ patchPc = "idle"
    /\ fileContents = <<>>
    /\ invoked = 0
    /\ received = <<>>
    /\ pending = <<>>
    /\ written = <<>>

\* The locals of fetchCensusData before and after a call
NoLocals ==
    /\ blocks = <<>>
    /\ employmentData = <<>>
    /\ activeBlocks = <<>>
    /\ sortedBlocks = <<>>
    /\ aggIdx = 0
    /\ clusters = <<>>
    /\ adjustedPopulation = <<>>
    /\ flows = <<>>

\* `for (const place of config.places) { mkdir; await fetchCensusData(place) }`
LoopNext ==
    /\ pc = "loop"
    /\ placeIdx <= Len(places)
    /\ pc' = "getBlocks"
    /\ UNCHANGED <<places, world, TUNING_PARAMS, placeIdx, blocks, employmentData,
                   activeBlocks, sortedBlocks, aggIdx, clusters, adjustedPopulation,
                   flows, disk,
                   outcome, connVars, patchVars>>

\* 'All places processed successfully!'
AllProcessed ==
    /\ pc = "loop"
    /\ placeIdx > Len(places)
    /\ pc' = "exit"
    /\ UNCHANGED <<places, world, TUNING_PARAMS, placeIdx, blocks, employmentData,
                   activeBlocks, sortedBlocks, aggIdx, clusters, adjustedPopulation,
                   flows, disk,
                   outcome, connVars, patchVars>>

\* Step 1; an empty answer of the API throws
GetCensusBlocksInBbox ==
    /\ pc = "getBlocks"
    /\ LET features == world[place].features
       IN  IF features = <<>>
           THEN /\ pc' = "catch"
                /\ blocks' = blocks
           ELSE /\ pc' = "estimate"
                /\ blocks' = ParseBlocks(features)
    /\ UNCHANGED <<places, world, TUNING_PARAMS, placeIdx, employmentData,
                   activeBlocks, sortedBlocks, aggIdx, clusters, adjustedPopulation,
                   flows, disk,
                   outcome, connVars, patchVars>>

\* Step 2
EstimateEmploymentData ==
    /\ pc = "estimate"
    /\ employmentData' = EstimateEmployment(blocks, world[place])
    /\ pc' = "filter"
    /\ UNCHANGED <<places, world, TUNING_PARAMS, placeIdx, blocks,
                   activeBlocks, sortedBlocks, aggIdx, clusters, adjustedPopulation,
                   flows, disk,
                   outcome, connVars, patchVars>>

\* Step 2.5; no active block throws
FilterActiveBlocks ==
    /\ pc = "filter"
    /\ activeBlocks' = ActiveBlocks(blocks, employmentData)
    /\ pc' = IF NoActiveData(activeBlocks') THEN "catch" ELSE "sort"
    /\ UNCHANGED <<places, world, TUNING_PARAMS, placeIdx, blocks, employmentData,
                   sortedBlocks, aggIdx, clusters, adjustedPopulation,
                   flows, disk,
                   outcome, connVars, patchVars>>

\* Step 2.6, aggregateBlocks: the sort and the empty cluster list
AggregateBlocksBegin ==
    /\ pc = "sort"
    /\ sortedBlocks' = SortByPopulation(activeBlocks)
    /\ clusters' = <<>>
    /\ aggIdx' = 1
    /\ pc' = "aggregate"
    /\ UNCHANGED <<places, world, TUNING_PARAMS, placeIdx, blocks, employmentData,
                   activeBlocks, adjustedPopulation, flows, disk, outcome, connVars, patchVars>>

\* aggregateBlocks: one turn of sortedBlocks.forEach
AggregateBlocksStep ==
    /\ pc = "aggregate"
    /\ aggIdx <= Len(sortedBlocks)
    /\ clusters' = AggregateBlock(clusters, sortedBlocks[aggIdx], employmentData,
                                  TUNING_PARAMS.clusterThresholdMeters)
    /\ aggIdx' = aggIdx + 1
    /\ UNCHANGED <<places, world, TUNING_PARAMS, placeIdx, pc, blocks, employmentData,
                   activeBlocks, sortedBlocks, adjustedPopulation, flows, disk,
                   outcome, connVars, patchVars>>

\* Step 3: clusterEmployment and generateCommuteFlows(clusters, clusterEmployment)
GenerateFlows ==
    /\ pc = "aggregate"
    /\ aggIdx > Len(sortedBlocks)
    /\ adjustedPopulation' = AdjustedPopulation(clusters)
    /\ flows' = GenerateCommuteFlows(clusters, ClusterEmployment(clusters),
                                     TUNING_PARAMS.minFlowSize)
    /\ pc' = "format"
    /\ UNCHANGED <<places, world, TUNING_PARAMS, placeIdx, blocks, employmentData,
                   activeBlocks, sortedBlocks, aggIdx, clusters, disk,
                   outcome, connVars, patchVars>>

\* Step 4: formatDemandData, writeFileSync, the success lines; the call returns
WriteDemandData ==
    /\ pc = "format"
    /\ disk' = (place :> FormatDemandData(clusters, ClusterEmployment(clusters), flows))
                  @@ disk
    /\ outcome' = [outcome EXCEPT ![place] = "ok"]
    /\ placeIdx' = placeIdx + 1
    /\ pc' = "loop"
    /\ blocks' = <<>>
    /\ employmentData' = <<>>
    /\ activeBlocks' = <<>>
    /\ sortedBlocks' = <<>>
    /\ aggIdx' = 0
    /\ clusters' = <<>>
    /\ adjustedPopulation' = <<>>
    /\ flows' = <<>>
    /\ UNCHANGED <<places, world, TUNING_PARAMS, connVars, patchVars>>

\* `catch (error) { console.error(...); throw error; }`: the error leaves
\* fetchCensusData and, nothing catching it, the top-level loop
CatchAndRethrow ==
    /\ pc = "catch"
    /\ outcome' = [outcome EXCEPT ![place] = "failed"]
    /\ pc' = "crashed"
    /\ UNCHANGED <<places, world, TUNING_PARAMS, placeIdx, blocks, employmentData,
                   activeBlocks, sortedBlocks, aggIdx, clusters, adjustedPopulation,
                   flows, disk,
                   connVars, patchVars>>

Next ==
    \/ LoopNext
    \/ AllProcessed
    \/ GetCensusBlocksInBbox
    \/ EstimateEmploymentData
    \/ FilterActiveBlocks
    \/ AggregateBlocksBegin
    \/ AggregateBlocksStep
    \/ GenerateFlows
    \/ WriteDemandData
    \/ CatchAndRethrow

----------------------------------------------------------------------------
\* The exact-data variant of the script (the second copy in
\* download_census_data.js): getEmploymentData takes the jobs from LODES only

\* Step 2 of the variant: a state without a postal code throws, and so does
\* blocks[0].state of an empty block list; the LODES counts are returned as
\* they are, also when they are all 0
GetEmploymentData ==
    /\ pc = "estimate"
    /\ IF blocks = <<>> \/ world[place].stateFips \notin fipsToPostal
       THEN /\ pc' = "catch"
            /\ employmentData' = employmentData
       ELSE /\ pc' = "filter"
            /\ employmentData' = LodesEmployment(blocks, world[place].lodes)
    /\ UNCHANGED <<places, world, TUNING_PARAMS, placeIdx, blocks,
                   activeBlocks, sortedBlocks, aggIdx, clusters, adjustedPopulation,
                   flows, disk, outcome, connVars, patchVars>>

NextExact ==
    \/ LoopNext
    \/ AllProcessed
    \/ GetCensusBlocksInBbox
    \/ GetEmploymentData
    \/ FilterActiveBlocks
    \/ AggregateBlocksBegin
    \/ AggregateBlocksStep
    \/ GenerateFlows
    \/ WriteDemandData
    \/ CatchAndRethrow

----------------------------------------------------------------------------
\* Inputs

\* The i-th feature of an answer of the TIGERweb API
Feature(i, kind) == [GEOID |-> i, INTPT |-> kind.loc, POP100 |-> kind.pop]

FeatureLists(Kinds, n) ==
    UNION {{[i \in 1..k |-> Feature(i, f[i])] : f \in [1..k -> Kinds]} : k \in 0..n}

Kinds(locs, pops) == {[loc |-> l, pop |-> p] : l \in locs, p \in pops}

\* Where the jobs come from: a state LODES does not cover, or a LODES file
\* giving 8 jobs to the blocks of S
Unsupported == [stateFips |-> "99", lodes |-> <<>>]

Lodes(S) == [stateFips |-> "06", lodes |-> [g \in S |-> 8]]

\* A LODES file with the given job count per block
LodesOf(jobCounts) == [stateFips |-> "06", lodes |-> jobCounts]

Areas(featureLists, sources) ==
    {[features |-> fl, stateFips |-> src.stateFips, lodes |-> src.lodes,
      buildings |-> <<>>] : fl \in featureLists, src \in sources}

\* Answers of the API in which identifiers may repeat and coordinates may be
\* missing or non-numeric ("NaN": parseFloat gives NaN) or numeric but out of
\* range ("OutOfRange": a latitude beyond 90 or a longitude beyond 180)
RawFeatureLists(ids, locs, pops, n) ==
    LET raw == {[GEOID |-> g, INTPT |-> l, POP100 |-> p] :
                   g \in ids, l \in locs, p \in pops}
    IN  UNION {[1..k -> raw] : k \in 0..n}

\* buildings.json after loadOSMBuildings: a centroid and a capacity >= 1 each
Building(kind) == [centroid |-> kind.loc, capacity |-> kind.capacity]

BuildingLists(locs, capacities, n) ==
    LET kinds == {[loc |-> l, capacity |-> c] : l \in locs, c \in capacities}
    IN  UNION {{[i \in 1..k |-> Building(f[i])] : f \in [1..k -> kinds]} : k \in 0..n}

AreasWithBuildings(featureLists, sources, buildingLists) ==
    {[features |-> fl, stateFips |-> src.stateFips, lodes |-> src.lodes,
      buildings |-> bl] : fl \in featureLists, src \in sources, bl \in buildingLists}

DefaultParams ==
    [clusterThresholdMeters |-> clusterThresholdMeters, minFlowSize |-> minFlowSize]

PlaceLists(n) == {[i \in 1..k |-> i] : k \in 1..n}

InitCensus(placeLists, areas, params) ==
    /\ places \in placeLists
    /\ world \in [Range(places) -> areas]
    /\ TUNING_PARAMS \in params
    /\ placeIdx = 1
    /\ pc = "loop"
    /\ NoLocals
    /\ disk = <<>>
    /\ outcome = [p \in Range(places) |-> "none"]
    /\ rawPlaces = <<>>
    /\ terminalTicker = 0
    /\ uniTicker = 0
    /\ task = <<>>
    /\ processed = <<>>
    /\ NoPatch

\* One place, the tuning parameters as released
Init ==
    InitCensus({<<1>>},
               Areas(FeatureLists(Kinds(Locs, {0, 6, 850}), MaxBlocks),
                     {Unsupported, Lodes({}), Lodes({1}), Lodes(2..MaxBlocks),
                      Lodes(1..MaxBlocks), LodesOf(2 :> 3),
                      LodesOf((1 :> 8) @@ (2 :> 3))}),
               {DefaultParams})

Spec == Init /\ [][Next]_vars

\* One place, the clustering threshold and the minimum flow size varied
InitParams ==
    InitCensus({<<1>>},
               Areas(FeatureLists(Kinds({"A", "B"}, {0, 401, 850}), MaxBlocks),
                     {Unsupported, Lodes(2..MaxBlocks), Lodes(1..MaxBlocks)}),
               {[clusterThresholdMeters |-> t, minFlowSize |-> m] :
                   t \in {0, 200, clusterThresholdMeters},
                   m \in {minFlowSize, 201, 202}})

SpecParams == InitParams /\ [][Next]_vars

\* Several places, each with at most two blocks and no LODES coverage
InitRun ==
    InitCensus(PlaceLists(MaxPlaces),
               Areas(FeatureLists(Kinds({"A", "C"}, {0, 850}), 2), {Unsupported}),
               {DefaultParams})

SpecRun == InitRun /\ [][Next]_vars

\* One place of populated blocks, all with jobs, clustered at 200 m so that
\* clusters lie 200 m, 400 m and 10 km apart
InitGravity ==
    InitCensus({<<1>>},
               Areas(FeatureLists(Kinds(Locs, {850}), MaxBlocks),
                     {Lodes(2..MaxBlocks), Lodes(1..MaxBlocks)}),
               {[clusterThresholdMeters |-> 200, minFlowSize |-> minFlowSize]})

SpecGravity == InitGravity /\ [][Next]_vars

\* One place around O, with blocks of 1000 residents or none and with LODES
\* jobs of 100 and 400 for the second and the third block, either way round
InitScenario ==
    InitCensus({<<1>>},
               Areas(FeatureLists(Kinds(ScenarioLocs, {0, 1000}), MaxBlocks),
                     {LodesOf((2 :> 100) @@ (3 :> 400)),
                      LodesOf((2 :> 400) @@ (3 :> 100))}),
               {DefaultParams})

SpecScenario == InitScenario /\ [][Next]_vars

\* The exact-data variant on one place, with and without LODES coverage
InitExact ==
    InitCensus({<<1>>},
               Areas(FeatureLists(Kinds({"A", "F"}, {0, 850}), MaxBlocks),
                     {Unsupported, Lodes({}), Lodes({1})}),
               {DefaultParams})

SpecExact == InitExact /\ [][NextExact]_vars

\* One place with up to two OSM buildings, with and without LODES coverage
InitEmployment ==
    InitCensus({<<1>>},
               AreasWithBuildings(
                   FeatureLists(Kinds({"A", "F"}, {0, 1, 850}), MaxBlocks),
                   {Unsupported, Lodes({1})},
                   BuildingLists({"A", "F"}, {1, 3}, 2)),
               {DefaultParams})

SpecEmployment == InitEmployment /\ [][Next]_vars

\* One place whose records may repeat an identifier and may have unusable
\* coordinates
InitIngest ==
    InitCensus({<<1>>},
               Areas(RawFeatureLists({1, 2}, {"A", "F", "NaN", "OutOfRange"},
                                     {0, 850}, MaxBlocks),
                     {Unsupported}),
               {DefaultParams})

SpecIngest == InitIngest /\ [][Next]_vars

----------------------------------------------------------------------------
\* process_data.js: processPlaceConnections numbers the terminals and the
\* universities of a place with the module-level terminalTicker and uniTicker

HoodKinds == {"neighbourhood", "terminal", "university"}

\* `let id = place.placeID; if (... 'terminal') {...} else if (... 'university') {...}`
\* acc = [ids, terminalTicker, uniTicker]
RECURSIVE AssignIds(_, _)
AssignIds(acc, hoods) ==
    IF hoods = <<>> THEN acc
    ELSE LET hood == hoods[1]
         IN  IF hood.kind = "terminal"
             THEN AssignIds([acc EXCEPT
                               !.ids = Append(@, <<"AIR_Terminal_", acc.terminalTicker>>),
                               !.terminalTicker = @ + 1], Tail(hoods))
             ELSE IF hood.kind = "university"
             THEN AssignIds([acc EXCEPT
                               !.ids = Append(@, <<"UNI_", acc.uniTicker>>),
                               !.uniTicker = @ + 1], Tail(hoods))
             ELSE AssignIds([acc EXCEPT !.ids = Append(@, <<hood.placeID>>)],
                            Tail(hoods))

ProcessPlaceConnections(hoods, terminals, unis) ==
    AssignIds([ids |-> <<>>, terminalTicker |-> terminals, uniTicker |-> unis], hoods)

\* config.places.forEach(place => { (async () => {...})() }): every task runs
\* to its first await, the read of buildings.json
LaunchAll ==
    /\ \A p \in Range(places) : task[p] = "idle"
    /\ task' = [p \in Range(places) |-> "readBuildings"]
    /\ UNCHANGED <<places, world, TUNING_PARAMS, censusVars, patchVars, rawPlaces,
                   terminalTicker, uniTicker, processed>>

\* buildings.json has been read: the task goes on to await places.json
BuildingsRead(p) ==
    /\ task[p] = "readBuildings"
    /\ task' = [task EXCEPT ![p] = "readPlaces"]
    /\ UNCHANGED <<places, world, TUNING_PARAMS, censusVars, patchVars, rawPlaces,
                   terminalTicker, uniTicker, processed>>

\* places.json has been read: the rest of processAllData runs without a
\* further await and writes demand_data.json
PlacesRead(p) ==
    /\ task[p] = "readPlaces"
    /\ LET r == ProcessPlaceConnections(rawPlaces[p], terminalTicker, uniTicker)
       IN  /\ processed' = (p :> r.ids) @@ processed
           /\ terminalTicker' = r.terminalTicker
           /\ uniTicker' = r.uniTicker
    /\ task' = [task EXCEPT ![p] = "finished"]
    /\ UNCHANGED <<places, world, TUNING_PARAMS, censusVars, patchVars, rawPlaces>>

NextConn ==
    \/ LaunchAll
    \/ \E p \in Range(places) : BuildingsRead(p)
    \/ \E p \in Range(places) : PlacesRead(p)

Hood(i, kind) == [placeID |-> i, kind |-> kind]

HoodLists(n) ==
    UNION {{[i \in 1..k |-> Hood(i, f[i])] : f \in [1..k -> HoodKinds]} : k \in 0..n}

InitConn ==
    /\ places \in PlaceLists(MaxPlaces)
    /\ rawPlaces \in [Range(places) -> HoodLists(2)]
    /\ terminalTicker = 0
    /\ uniTicker = 0
    /\ task = [p \in Range(places) |-> "idle"]
    /\ processed = <<>>
    /\ world = <<>>
    /\ TUNING_PARAMS = DefaultParams
    /\ placeIdx = 1
    /\ pc = "loop"
    /\ NoLocals
    /\ disk = <<>>
    /\ outcome = <<>>
    /\ NoPatch

SpecConn == InitConn /\ [][NextConn]_vars

----------------------------------------------------------------------------
\* patch_game.js: the packages of config.packagesToRun are applied to the game
\* files.  fileContents is modelled by the names of the packages whose patch
\* it holds, in the order they were applied.

PackageNames == {"mapPatcher", "other"}

\* What the patcherExec of a package does: it returns a value ("sync"), returns
\* a Promise that resolves ("async") or rejects ("rejects"), or throws
\* ("throws"); "missing" is a package whose patcherExec.js cannot be imported.
PackageKinds == {"sync", "async", "rejects", "throws", "missing"}

Package(name, kind) == [name |-> name, kind |-> kind]

PackageLists(n) ==
    UNION {[1..k -> {Package(nm, kd) : nm \in PackageNames, kd \in PackageKinds}] :
              k \in 0..n}

\* mod.patcherExec(fileContents): the contents with the package's patch applied
PatcherExec(mod, contents) == Append(contents, mod.name)

\* A chain whose callbacks do not wait for the Promise of the one before
SettledAlways(pend) == TRUE

\* `sequence = sequence.then(...)`: a callback of the chain runs once the
\* Promise returned by the callback before it is fulfilled
Settled(pend) == DOMAIN pend = {}

\* The loop of import() calls and Promise.all(promises)
ImportPackages ==
    /\ patchPc = "import"
    /\ patchPc' = IF \E i \in DOMAIN packagesToRun : packagesToRun[i].kind = "missing"
                  THEN "rejected"
                  ELSE "sequence"
    /\ UNCHANGED <<places, world, TUNING_PARAMS, censusVars, connVars,
                   packagesToRun, fileContents, invoked, received, pending, written>>

\* The callback of the next module: `let result = mod.patcherExec(fileContents);
\* return result instanceof Promise ? result.then(res => fileContents = res)
\* : (fileContents = result);`
InvokePackage ==
    /\ patchPc = "sequence"
    /\ invoked < Len(packagesToRun)
    /\ Settled(pending)
    /\ LET k == invoked + 1
           mod == packagesToRun[k]
           result == PatcherExec(mod, fileContents)
       IN  /\ invoked' = k
           /\ received' = Append(received, fileContents)
           /\ fileContents' = IF mod.kind = "sync" THEN result ELSE fileContents
           /\ pending' = IF mod.kind \in {"async", "rejects"}
                         THEN (k :> result) @@ pending
                         ELSE pending
           /\ patchPc' = IF mod.kind = "throws" THEN "rejected" ELSE patchPc
    /\ UNCHANGED <<places, world, TUNING_PARAMS, censusVars, connVars,
                   packagesToRun, written>>

\* `result.then(res => fileContents = res)`
ResolvePromise(k) ==
    /\ patchPc = "sequence"
    /\ k \in DOMAIN pending
    /\ packagesToRun[k].kind = "async"
    /\ fileContents' = pending[k]
    /\ pending' = [j \in DOMAIN pending \ {k} |-> pending[j]]
    /\ UNCHANGED <<places, world, TUNING_PARAMS, censusVars, connVars,
                   packagesToRun, patchPc, invoked, received, written>>

\* The Promise of a patcherExec rejects: the chain is rejected, none of its
\* later callbacks runs
RejectPromise(k) ==
    /\ patchPc = "sequence"
    /\ k \in DOMAIN pending
    /\ packagesToRun[k].kind = "rejects"
    /\ patchPc' = "rejected"
    /\ pending' = [j \in DOMAIN pending \ {k} |-> pending[j]]
    /\ UNCHANGED <<places, world, TUNING_PARAMS, censusVars, connVars,
                   packagesToRun, fileContents, invoked, received, written>>

\* `sequence.then(() => { ...; fs.writeFileSync(...); ... })`
WriteFiles ==
    /\ patchPc = "sequence"
    /\ invoked = Len(packagesToRun)
    /\ Settled(pending)
    /\ written' = <<fileContents>>
    /\ patchPc' = "written"
    /\ UNCHANGED <<places, world, TUNING_PARAMS, censusVars, connVars,
                   packagesToRun, fileContents, invoked, received, pending>>

NextPatch ==
    \/ ImportPackages
    \/ InvokePackage
    \/ \E k \in 1..MaxPackages : ResolvePromise(k)
    \/ \E k \in 1..MaxPackages : RejectPromise(k)
    \/ WriteFiles

\* The game files have been read; up to MaxPackages packages are configured
InitPatch ==
    /\ packagesToRun \in PackageLists(MaxPackages)
    /\ patchPc = "import"
    /\ fileContents = <<>>
    /\ invoked = 0
    /\ received = <<>>
    /\ pending = <<>>
    /\ written = <<>>
    /\ places = <<>>
    /\ world = <<>>
    /\ TUNING_PARAMS = DefaultParams
    /\ placeIdx = 1
    /\ pc = "loop"
    /\ NoLocals
    /\ flows = <<>>
    /\ disk = <<>>
    /\ outcome = <<>>
    /\ rawPlaces = <<>>
    /\ terminalTicker = 0
    /\ uniTicker = 0
    /\ task = <<>>
    /\ processed = <<>>

SpecPatch == InitPatch /\ [][NextPatch]_vars

----------------------------------------------------------------------------
\* Properties

\* aggregateBlocks has returned
Aggregated ==
    \/ pc = "aggregate" /\ aggIdx > Len(sortedBlocks)
    \/ pc = "format"

PopulationOf(bs) == SumSeq([i \in DOMAIN bs |-> bs[i].population])

ClusterJobs(cs) == SumSeq([i \in DOMAIN cs |-> cs[i].jobs])

BlockJobs(bs, emp) == SumSeq([i \in DOMAIN bs |-> JobsOf(emp, bs[i].geoid)])

\* How often block b occurs in the sequence bs
Count(b, bs) == Cardinality({i \in DOMAIN bs : bs[i] = b})

Memberships(b, cs) == SumSeq([i \in DOMAIN cs |-> Count(b, cs[i].subBlocks)])

\* C1: whatever the threshold, the clusters aggregateBlocks returns carry the
\* population and the jobs of the active blocks, and every active block is a
\* member of exactly one cluster.
C1_Conservation ==
    Aggregated =>
        /\ PopulationOf(clusters) = PopulationOf(activeBlocks)
        /\ ClusterJobs(clusters) = BlockJobs(activeBlocks, employmentData)
        /\ \A b \in Range(activeBlocks) :
              Memberships(b, clusters) = Count(b, activeBlocks)
        /\ \A i \in DOMAIN clusters :
              Range(clusters[i].subBlocks) \subseteq Range(activeBlocks)

\* A block with jobs has joined another block's cluster
C1_Witness ==
    /\ Aggregated
    /\ \E i \in DOMAIN clusters :
          /\ Len(clusters[i].subBlocks) >= 2
          /\ JobsOf(employmentData, clusters[i].subBlocks[2].geoid) > 0
          /\ clusters[i].subBlocks[2].population > 0

\* The flow records written so far, and those about to be written
AllPops ==
    UNION {Range(disk[p].pops) : p \in DOMAIN disk}
        \cup (IF pc = "format" THEN Range(flows) ELSE {})

\* Two records of one split allocation
SplitRecords(f, g) ==
    /\ f.id # g.id
    /\ f.residenceId = g.residenceId
    /\ f.jobId = g.jobId

\* C2, as claimed: every flow record, the records of a split allocation
\* included, has size >= minFlowSize, whatever minFlowSize is.
C2_EveryRecordAtLeastMin ==
    \A f \in AllPops : f.size >= TUNING_PARAMS.minFlowSize

\* The smallest record a split can produce: round((SplitCap + 1) / 2)
SmallestSplit == Round(SplitCap + 1, 2)

\* C2, amended: every allocation that is written is >= minFlowSize, and every
\* flow record is >= minFlowSize as long as minFlowSize <= 201; a record of a
\* split allocation is never smaller than 201.
C2_RecordAtLeastMinUpTo201 ==
    \A f \in AllPops :
        /\ TUNING_PARAMS.minFlowSize <= SmallestSplit
              => f.size >= TUNING_PARAMS.minFlowSize
        /\ (\E g \in AllPops : SplitRecords(f, g)) => f.size >= SmallestSplit
        /\ (~ \E g \in AllPops : SplitRecords(f, g))
              => f.size >= TUNING_PARAMS.minFlowSize

\* An allocation of 401 was split into records of 201 under minFlowSize = 201
C2_Witness ==
    /\ TUNING_PARAMS.minFlowSize = SmallestSplit
    /\ \E f \in AllPops :
          /\ f.size = SmallestSplit
          /\ \E g \in AllPops : SplitRecords(f, g)

PointIds(doc) == {doc.points[i].id : i \in DOMAIN doc.points}

\* C3: in every demand document written, the residenceId and the jobId of every
\* pop are ids of points of that document.
C3_PopsReferencePoints ==
    \A p \in DOMAIN disk :
        \A i \in DOMAIN disk[p].pops :
            /\ disk[p].pops[i].residenceId \in PointIds(disk[p])
            /\ disk[p].pops[i].jobId \in PointIds(disk[p])

\* A document with pops, written for an area of which one block (no
\* population, no jobs) was filtered out and another, populated one was merged
\* away as a non-seed member
C3_Witness ==
    \E p \in DOMAIN disk :
        /\ Len(disk[p].pops) > 0
        /\ \E f, g \in Range(world[p].features) :
              /\ f.POP100 = 0
              /\ f.GEOID \notin DOMAIN world[p].lodes
              /\ f.GEOID \notin PointIds(disk[p])
              /\ g.POP100 > 0
              /\ g.GEOID \notin PointIds(disk[p])

\* The positions in flows of the records from cluster o to cluster d
RecordsOf(o, d) ==
    {i \in DOMAIN flows : /\ flows[i].residenceId = clusters[o].geoid
                          /\ flows[i].jobId = clusters[d].geoid}

\* The allocation flowSize generateCommuteFlows computes from cluster o to
\* cluster d; 0 when o is no origin or d no candidate destination of o
Allocation(o, d) ==
    LET emp == ClusterEmployment(clusters)
        originPop == AdjustedPopulation(clusters)[clusters[o].geoid]
        potentialFlows == PotentialFlows(clusters[o], clusters, emp)
        total == TotalAttractiveness(potentialFlows)
    IN  IF IsOrigin(originPop) /\ total # 0 /\ IsCandidate(clusters[o], clusters[d], emp)
        THEN FlowSize(originPop, PotentialFlow(clusters[o], clusters[d], emp), total)
        ELSE 0

\* C4: an allocation flowSize >= minFlowSize is written as exactly
\* ceil(flowSize / 400) records, each of size round(flowSize / splits) <= 400,
\* with the same residenceId, jobId and drivingDistance and consecutive ids; 850
\* gives 3 records of 283, an allocation <= 400 one record of size flowSize.
C4_SplitRecords ==
    pc = "format" =>
        \A o, d \in DOMAIN clusters :
            LET flowSize == Allocation(o, d)
                recs == RecordsOf(o, d)
                splits == Cardinality(recs)
            IN  flowSize >= TUNING_PARAMS.minFlowSize =>
                    /\ splits = Ceil(flowSize, 400)
                    /\ \A i \in recs :
                          /\ flows[i].size = Round(flowSize, splits)
                          /\ flows[i].size <= 400
                          /\ flows[i].drivingDistance
                                = Dist(clusters[o].centroid, clusters[d].centroid)
                          /\ flows[i].id = ToString(i - 1)
                    /\ \A i, j \in recs : \A k \in i..j : k \in recs
                    /\ flowSize = 850 => splits = 3 /\ \A i \in recs : flows[i].size = 283
                    /\ flowSize <= 400 => splits = 1 /\ \A i \in recs : flows[i].size = flowSize

\* An allocation of 850 has been written as three records of 283
C4_Witness ==
    /\ pc = "format"
    /\ \E o, d \in DOMAIN clusters :
          /\ Allocation(o, d) = 850
          /\ Cardinality(RecordsOf(o, d)) = 3
          /\ \A i \in RecordsOf(o, d) : flows[i].size = 283

\* The script has ended, normally or by the uncaught error
Ended == pc \in {"exit", "crashed"}

\* C5, as claimed: a failure in one area does not keep the later areas from
\* being processed; when the run ends, every configured area has been attempted
\* and has its success or failure reported.
C5_EveryAreaAttempted ==
    Ended => \A p \in Range(places) : outcome[p] \in {"ok", "failed"}

\* C6, as claimed: the document written for a place is the one the place gets
\* when it is processed alone, whatever other places the run processes and in
\* whatever order their reads complete.
C6_DocumentIndependentOfOtherAreas ==
    \A p \in DOMAIN processed :
        processed[p] = ProcessPlaceConnections(rawPlaces[p], 0, 0).ids

\* The position of block b in the sequence bs
Position(b, bs) == MinOf({i \in DOMAIN bs : bs[i] = b})

\* C7: the engine is deterministic. Two places with the same blocks and
\* employment data get the same document (clusters, flows, ids, order), and
\* blocks of equal population are processed in ingestion order.
C7_Deterministic ==
    /\ \A p, q \in DOMAIN disk : world[p] = world[q] => disk[p] = disk[q]
    /\ pc \in {"aggregate", "format"} =>
          \A i, j \in DOMAIN sortedBlocks :
              (i < j /\ sortedBlocks[i].population = sortedBlocks[j].population)
                  => Position(sortedBlocks[i], activeBlocks)
                        < Position(sortedBlocks[j], activeBlocks)

\* Two places with the same data, two blocks of equal population each, have
\* been written with flows
C7_Witness ==
    /\ 1 \in DOMAIN disk
    /\ 2 \in DOMAIN disk
    /\ world[1] = world[2]
    /\ Len(disk[2].points) = 2
    /\ disk[2].points[1].residents = disk[2].points[2].residents
    /\ Len(disk[2].pops) > 0

\* C8: with clusterThresholdMeters = 0 nothing is merged: aggregateBlocks
\* returns one cluster per active block, with that block as its only member
\* and with its id, population and jobs, also for blocks sharing a centroid.
C8_ZeroThresholdMergesNothing ==
    (TUNING_PARAMS.clusterThresholdMeters = 0 /\ Aggregated) =>
        /\ Len(clusters) = Len(activeBlocks)
        /\ \A b \in Range(activeBlocks) :
              Cardinality({i \in DOMAIN clusters : clusters[i].geoid = b.geoid})
                  = Count(b, activeBlocks)
        /\ \A i \in DOMAIN clusters :
              /\ Len(clusters[i].subBlocks) = 1
              /\ clusters[i].subBlocks[1] \in Range(activeBlocks)
              /\ clusters[i].geoid = clusters[i].subBlocks[1].geoid
              /\ clusters[i].population = clusters[i].subBlocks[1].population
              /\ clusters[i].jobs = JobsOf(employmentData, clusters[i].geoid)

\* Threshold 0, and two blocks with the same centroid have become two clusters
C8_Witness ==
    /\ TUNING_PARAMS.clusterThresholdMeters = 0
    /\ Aggregated
    /\ \E i, j \in DOMAIN clusters :
          i # j /\ clusters[i].centroid = clusters[j].centroid

\* The blocks aggregateBlocks has processed so far
Processed == SubSeq(sortedBlocks, 1, aggIdx - 1)

\* C9: aggregateBlocks takes the blocks in descending population order and
\* puts each into the first cluster, in creation order, whose seed centroid is
\* within clusterThresholdMeters of the block's centroid; a block seeds a new
\* cluster exactly when no existing cluster qualifies.
C9_FirstQualifyingCluster ==
    pc \in {"aggregate", "format"} =>
        LET thr == TUNING_PARAMS.clusterThresholdMeters
            near(b, i) == Dist(b.centroid, clusters[i].subBlocks[1].centroid) < thr
            at(b) == Position(b, sortedBlocks)
        IN  \* the order of processing
            /\ \A b \in Range(activeBlocks) :
                  Count(b, sortedBlocks) = Count(b, activeBlocks)
            /\ Len(sortedBlocks) = Len(activeBlocks)
            /\ \A i, j \in DOMAIN sortedBlocks :
                  i < j => sortedBlocks[i].population >= sortedBlocks[j].population
            /\ \A b \in Range(Processed) : Memberships(b, clusters) = 1
            /\ SumSeq([i \in DOMAIN clusters |-> Len(clusters[i].subBlocks)])
                  = Len(Processed)
            \* clusters are in creation order, members in joining order
            /\ \A i, j \in DOMAIN clusters :
                  i < j => at(clusters[i].subBlocks[1]) < at(clusters[j].subBlocks[1])
            /\ \A i \in DOMAIN clusters :
                  \A m, n \in DOMAIN clusters[i].subBlocks :
                      m < n => at(clusters[i].subBlocks[m]) < at(clusters[i].subBlocks[n])
            \* a member joined the first qualifying cluster; a seed found none
            /\ \A i \in DOMAIN clusters :
                  \A m \in DOMAIN clusters[i].subBlocks :
                      LET b == clusters[i].subBlocks[m]
                      IN  /\ \A j \in 1..(i - 1) : ~ near(b, j)
                          /\ m > 1 => near(b, i)

\* A block within the threshold of the seeds of two clusters has joined the first
C9_Witness ==
    /\ pc = "aggregate"
    /\ \E i, j \in DOMAIN clusters :
          /\ i < j
          /\ \E m \in DOMAIN clusters[i].subBlocks :
                /\ m > 1
                /\ WithinThreshold(clusters[i].subBlocks[m], clusters[j],
                                   TUNING_PARAMS.clusterThresholdMeters)
                /\ Position(clusters[i].subBlocks[m], sortedBlocks)
                      > Position(clusters[j].subBlocks[1], sortedBlocks)

\* C10: from its creation to the end of the aggregation a cluster keeps the
\* id and the centroid of its seed block; a joining block changes only the
\* population, the jobs and the members.
C10_SeedStable ==
    [][(pc = "aggregate" /\ pc' \in {"aggregate", "format"}) =>
          /\ Len(clusters') >= Len(clusters)
          /\ \A i \in DOMAIN clusters :
                /\ clusters'[i].geoid = clusters[i].geoid
                /\ clusters'[i].centroid = clusters[i].centroid
                /\ clusters'[i].subBlocks[1] = clusters[i].subBlocks[1]
          /\ \A i \in DOMAIN clusters' :
                /\ clusters'[i].geoid = clusters'[i].subBlocks[1].geoid
                /\ clusters'[i].centroid = clusters'[i].subBlocks[1].centroid]_vars

\* A cluster holds a member whose centroid is not the cluster's
C10_Witness ==
    /\ pc = "aggregate"
    /\ \E i \in DOMAIN clusters :
          /\ Len(clusters[i].subBlocks) >= 2
          /\ clusters[i].subBlocks[2].centroid # clusters[i].centroid
          /\ clusters[i].population > clusters[i].subBlocks[1].population

\* The points of every document written
WrittenPoints == UNION {Range(disk[p].points) : p \in DOMAIN disk}

\* C11: no point of a written document has residents = 0 and jobs = 0; a block
\* without population and without jobs is not among the active blocks, and so
\* no cluster is without both.
C11_NoEmptyNode ==
    /\ \A pt \in WrittenPoints : pt.residents > 0 \/ pt.jobs > 0
    /\ \A b \in Range(activeBlocks) :
          b.population > 0 \/ JobsOf(employmentData, b.geoid) > 0
    /\ \A c \in Range(clusters) : c.population > 0 \/ c.jobs > 0

\* A document was written for an area with a block without population and
\* jobs, which is no point, and a block without population but with jobs,
\* which is one
C11_Witness ==
    \E p \in DOMAIN disk :
        /\ \E f \in Range(world[p].features) :
              /\ f.POP100 = 0
              /\ f.GEOID \notin DOMAIN world[p].lodes
              /\ f.GEOID \notin PointIds(disk[p])
        /\ \E pt \in Range(disk[p].points) : pt.residents = 0 /\ pt.jobs > 0

\* Every block fetched for the current place is without population and jobs
NothingActive ==
    /\ pc \in {"filter", "sort", "aggregate", "format", "catch", "crashed"}
    /\ blocks # <<>>
    /\ \A b \in Range(blocks) :
          b.population = 0 /\ JobsOf(employmentData, b.geoid) = 0

\* C12: when every block of the area has population 0 and jobs 0, the filter
\* step throws: nothing is aggregated, no flows are made, and no document is
\* written for the area, which is reported as failed.
C12_NoActiveDataFails ==
    /\ [](NothingActive =>
            /\ pc \in {"filter", "catch", "crashed"}
            /\ sortedBlocks = <<>> /\ clusters = <<>> /\ flows = <<>>
            /\ place \notin DOMAIN disk
            /\ pc = "crashed" => outcome[place] = "failed")
    /\ [][(NothingActive /\ pc = "filter") => pc' = "catch"]_vars

\* The area had blocks, none of them active, and its processing has failed
C12_Witness ==
    /\ NothingActive
    /\ pc = "crashed"
    /\ Len(blocks) >= 2
    /\ disk = <<>>

\* The clusters by kind: low (0 < population < minPopPerBlock) and normal
LowClusters ==
    {i \in DOMAIN clusters : /\ clusters[i].population > 0
                             /\ clusters[i].population < minPopPerBlock}

NormalClusters == {i \in DOMAIN clusters : clusters[i].population >= minPopPerBlock}

\* adjustedPopulation of the i-th cluster
Adjusted(i) == adjustedPopulation[clusters[i].geoid]

NearestNormal(l) ==
    {n \in NormalClusters :
        \A m \in NormalClusters :
            Dist(clusters[l].centroid, clusters[n].centroid)
                <= Dist(clusters[l].centroid, clusters[m].centroid)}

Outflow(doc, id) ==
    SumSeq([k \in DOMAIN doc.pops |->
              IF doc.pops[k].residenceId = id THEN doc.pops[k].size ELSE 0])

FlowsAt(doc, pt) ==
    {k \in DOMAIN doc.pops : \/ doc.pops[k].residenceId = pt.id
                             \/ doc.pops[k].jobId = pt.id}

\* The m-th smallest element of the set S of numbers
Nth(S, m) == CHOOSE k \in S : Cardinality({j \in S : j <= k}) = m

\* C17: in every document written, the popIds of a point are the ids of the
\* flows that start or end at the point, in the order of pops and each once,
\* also for a flow from the point to itself; every flow's id is in the popIds
\* of its origin point and of its destination point, and flow ids are unique.
C17_PopIdsBackReferences ==
    \A p \in DOMAIN disk :
        LET doc == disk[p]
        IN  /\ \A pt \in Range(doc.points) :
                  /\ Len(pt.popIds) = Cardinality(FlowsAt(doc, pt))
                  /\ \A m \in DOMAIN pt.popIds :
                        pt.popIds[m] = doc.pops[Nth(FlowsAt(doc, pt), m)].id
            /\ \A k \in DOMAIN doc.pops :
                  /\ \E pt \in Range(doc.points) :
                        /\ pt.id = doc.pops[k].residenceId
                        /\ doc.pops[k].id \in Range(pt.popIds)
                  /\ \E pt \in Range(doc.points) :
                        /\ pt.id = doc.pops[k].jobId
                        /\ doc.pops[k].id \in Range(pt.popIds)
            /\ \A k, l \in DOMAIN doc.pops :
                  doc.pops[k].id = doc.pops[l].id => k = l

\* A point with a flow to itself followed by flows to another point, which
\* has flows of its own before and after those
C17_Witness ==
    \E p \in DOMAIN disk :
        \E k, l, m \in DOMAIN disk[p].pops :
            /\ k < l /\ l < m
            /\ disk[p].pops[k].residenceId = disk[p].pops[k].jobId
            /\ disk[p].pops[l].residenceId = disk[p].pops[k].residenceId
            /\ disk[p].pops[l].jobId # disk[p].pops[l].residenceId
            /\ disk[p].pops[m].residenceId = disk[p].pops[l].jobId

\* Cluster o has no candidate destination: no jobs of its own, and no other
\* cluster with jobs >= minJobsPerBlock
Isolated(o) ==
    /\ clusters[o].jobs = 0
    /\ \A k \in DOMAIN clusters \ {o} : clusters[k].jobs < minJobsPerBlock

\* C18: an origin whose candidate destinations have total attractiveness 0
\* has no flows; that is no error (errors come only before the aggregation),
\* and the origins after it get their flows.
C18_ZeroAttractivenessSkipped ==
    /\ pc = "format" =>
          \A o \in DOMAIN clusters :
              /\ Isolated(o) => \A f \in Range(flows) : f.residenceId # clusters[o].geoid
              /\ \A y \in DOMAIN clusters :
                    (/\ Isolated(o) /\ o < y
                     /\ Adjusted(y) >= minPopPerBlock
                     /\ clusters[y].jobs > 0)
                        => RecordsOf(y, y) # {}
    /\ pc \in {"catch", "crashed"} => sortedBlocks = <<>> /\ clusters = <<>>

\* A populated origin without candidate destinations, without flows, and a
\* later origin with flows
C18_Witness ==
    /\ pc = "format"
    /\ \E o, y \in DOMAIN clusters :
          /\ o < y
          /\ Isolated(o)
          /\ Adjusted(o) >= minPopPerBlock
          /\ RecordsOf(o, o) = {} /\ RecordsOf(o, y) = {}
          /\ RecordsOf(y, y) # {}

\* The point of document doc with the given id
PointOf(doc, id) == CHOOSE pt \in Range(doc.points) : pt.id = id

\* C19: in every document written, a flow to another cluster goes to a
\* cluster with jobs >= minJobsPerBlock; a flow of a cluster to itself needs
\* jobs > 0 there and has drivingDistance 0 and drivingSeconds 0.
C19_DestinationJobs ==
    \A p \in DOMAIN disk :
        \A f \in Range(disk[p].pops) :
            IF f.jobId # f.residenceId
            THEN PointOf(disk[p], f.jobId).jobs >= minJobsPerBlock
            ELSE /\ PointOf(disk[p], f.jobId).jobs > 0
                 /\ f.drivingDistance = 0
                 /\ f.drivingSeconds = 0

\* A point with fewer than minJobsPerBlock jobs has a flow to itself and
\* flows to a point with more, which has none to it
C19_Witness ==
    \E p \in DOMAIN disk :
        \E f, g \in Range(disk[p].pops) :
            /\ f.jobId = f.residenceId
            /\ PointOf(disk[p], f.jobId).jobs < minJobsPerBlock
            /\ g.residenceId = f.residenceId
            /\ g.jobId # g.residenceId
            /\ PointOf(disk[p], g.jobId).residents >= minPopPerBlock
            /\ \A h \in Range(disk[p].pops) :
                  h.jobId = f.jobId => h.residenceId = f.jobId

\* The attractiveness of cluster d for origin o
Attractiveness(o, d) ==
    PotentialFlow(clusters[o], clusters[d], ClusterEmployment(clusters)).attractiveness

\* Destinations d1 and d2 of origin o with the same jobs, d1 the nearer
NearerOfEqualJobs(o, d1, d2) ==
    /\ o # d1 /\ o # d2
    /\ clusters[d1].jobs = clusters[d2].jobs
    /\ clusters[d1].jobs >= minJobsPerBlock
    /\ Dist(clusters[o].centroid, clusters[d1].centroid)
          < Dist(clusters[o].centroid, clusters[d2].centroid)

\* C20, as claimed: of two destinations with the same jobs the nearer one is
\* strictly more attractive, whatever the two distances.
C20_StrictlyDecreasing ==
    pc = "format" =>
        \A o, d1, d2 \in DOMAIN clusters :
            NearerOfEqualJobs(o, d1, d2) => Attractiveness(o, d1) > Attractiveness(o, d2)

\* C20, amended: of two destinations with the same jobs the nearer one is
\* never less attractive; it is strictly more attractive exactly when the
\* farther one lies beyond gravityMinDistance, and both are equally
\* attractive when both lie within gravityMinDistance.
C20_DecreasingBeyondMinDistance ==
    pc = "format" =>
        \A o, d1, d2 \in DOMAIN clusters :
            NearerOfEqualJobs(o, d1, d2) =>
                /\ Attractiveness(o, d1) >= Attractiveness(o, d2)
                /\ Allocation(o, d1) >= Allocation(o, d2)
                /\ IF Dist(clusters[o].centroid, clusters[d2].centroid) > gravityMinDistance
                   THEN Attractiveness(o, d1) > Attractiveness(o, d2)
                   ELSE Attractiveness(o, d1) = Attractiveness(o, d2)

\* An origin with destinations of equal jobs at 400 m and at 10 km, the
\* nearer one with the larger flow
C20_Witness ==
    /\ pc = "format"
    /\ \E o, d1, d2 \in DOMAIN clusters :
          /\ NearerOfEqualJobs(o, d1, d2)
          /\ Dist(clusters[o].centroid, clusters[d1].centroid) = 400
          /\ Dist(clusters[o].centroid, clusters[d2].centroid) > gravityMinDistance
          /\ Attractiveness(o, d1) > Attractiveness(o, d2)
          /\ RecordsOf(o, d1) # {} /\ RecordsOf(o, d2) # {}

\* The clusters other than o with jobs >= minJobsPerBlock
Destinations(o) ==
    {d \in DOMAIN clusters \ {o} : clusters[d].jobs >= minJobsPerBlock}

\* Origin o has adjusted population 1000 and exactly the two candidate
\* destinations a (100 jobs, 1000 m) and b (400 jobs, 4000 m)
TwoDestinations(o, a, b) ==
    /\ Adjusted(o) = 1000
    /\ clusters[o].jobs = 0
    /\ Destinations(o) = {a, b}
    /\ clusters[a].jobs = 100
    /\ Dist(clusters[o].centroid, clusters[a].centroid) = 1000
    /\ clusters[b].jobs = 400
    /\ Dist(clusters[o].centroid, clusters[b].centroid) = 4000

\* The sizes of the records from cluster o to cluster d
Sent(o, d) ==
    SumSeq([k \in DOMAIN flows |-> IF k \in RecordsOf(o, d) THEN flows[k].size ELSE 0])

\* Destinations a and b of o both lie within gravityMinDistance, and their
\* allocations are in the ratio of their jobs, up to the rounding of each
JobRatioWithinFloor(o, a, b) ==
    (/\ Dist(clusters[o].centroid, clusters[a].centroid) <= gravityMinDistance
     /\ Dist(clusters[o].centroid, clusters[b].centroid) <= gravityMinDistance)
        => LET x == Allocation(o, a) * clusters[b].jobs
               y == Allocation(o, b) * clusters[a].jobs
           IN  /\ 2 * (x - y) <= clusters[a].jobs + clusters[b].jobs
               /\ 2 * (y - x) <= clusters[a].jobs + clusters[b].jobs

\* C21, as claimed: in the scenario both distances are floored, so that B gets
\* 800 and A 200; and two destinations within gravityMinDistance get
\* allocations in the ratio of their jobs.
C21_BothFloored ==
    pc = "format" =>
        \A o \in DOMAIN clusters : \A a, b \in Destinations(o) :
            /\ TwoDestinations(o, a, b) => Allocation(o, a) = 200 /\ Allocation(o, b) = 800
            /\ IsOrigin(Adjusted(o)) => JobRatioWithinFloor(o, a, b)

\* C21, amended: in the scenario only A's 1000 m are floored to 2500 m, B's
\* 4000 m are not, so that A gets 240 and B 760; two destinations that do
\* both lie within gravityMinDistance get allocations in the ratio of their
\* jobs, within rounding.
C21_OnlyNearFloored ==
    pc = "format" =>
        \A o \in DOMAIN clusters : \A a, b \in Destinations(o) :
            /\ TwoDestinations(o, a, b) =>
                  /\ Allocation(o, a) = 240 /\ Sent(o, a) = 240
                  /\ Allocation(o, b) = 760 /\ Sent(o, b) = 760
            /\ IsOrigin(Adjusted(o)) => JobRatioWithinFloor(o, a, b)

\* The scenario: one record of 240 to A, two of 380 to B
C21_Witness ==
    /\ pc = "format"
    /\ \E o \in DOMAIN clusters : \E a, b \in Destinations(o) :
          /\ TwoDestinations(o, a, b)
          /\ Cardinality(RecordsOf(o, a)) = 1
          /\ Cardinality(RecordsOf(o, b)) = 2
          /\ \A k \in RecordsOf(o, b) : flows[k].size = 380

\* fetchCensusData has fetched blocks for the current place and is past the
\* employment step, and the blocks' state has no LODES postal code
UnsupportedState ==
    /\ pc \in {"filter", "sort", "aggregate", "format", "catch", "crashed"}
    /\ blocks # <<>>
    /\ world[place].stateFips \notin fipsToPostal

\* C22, as claimed: an unsupported state code does not abort the area; the
\* employment is that of the heuristic strategy, and the area goes on to its
\* document, also with zero employment.
C22_UnsupportedStateFallsBack ==
    UnsupportedState =>
        /\ pc \notin {"catch", "crashed"}
        /\ employmentData = HeuristicEmployment(blocks, world[place])

\* estimateEmploymentData has used the capacity heuristic for the current place
CapacityHeuristicUsed ==
    /\ pc = "filter"
    /\ blocks # <<>>
    /\ Len(world[place].buildings) > 0
    /\ \/ world[place].stateFips \notin fipsToPostal
       \/ TotalJobs(LodesEmployment(blocks, world[place].lodes)) = 0

\* The capacity of the buildings whose nearest block is the i-th block
CapacityAt(i) ==
    LET osmBuildings == world[place].buildings
    IN  SumSeq([k \in DOMAIN osmBuildings |->
                  IF NearestPoint(osmBuildings[k].centroid, blocks) = i
                  THEN osmBuildings[k].capacity ELSE 0])

TotalCapacity ==
    SumSeq([k \in DOMAIN world[place].buildings |-> world[place].buildings[k].capacity])

\* C23, as claimed: under the capacity heuristic the jobs of a block are its
\* buildings' share of totalPopulation * jobRatio, rounded once, at the end;
\* nothing that feeds the share, the target total included, is rounded before.
C23_RoundedOncePerBlock ==
    CapacityHeuristicUsed =>
        \A i \in DOMAIN blocks :
            employmentData[blocks[i].geoid]
                = Round(CapacityAt(i) * PopulationOf(blocks) * jobRatioPct,
                        TotalCapacity * 100)

\* getCensusBlocksInBbox has returned the blocks of the current place
Ingested ==
    pc \in {"estimate", "filter", "sort", "aggregate", "format"}

\* The records of the current place that ingestion does not drop for their
\* coordinates
Usable(valid) == SelectSeq(world[place].features, LAMBDA f : f.INTPT \in valid)

\* The last record in the sequence fs with identifier id
LastWith(fs, id) ==
    fs[CHOOSE i \in DOMAIN fs :
          /\ fs[i].GEOID = id
          /\ \A j \in DOMAIN fs : fs[j].GEOID = id => j <= i]

\* C24, as claimed: ingestion deduplicates by identifier: the block list has
\* one block per identifier, with the data of the last record that has it;
\* records with different identifiers at one location are all kept.
C24_DeduplicatedById ==
    Ingested =>
        LET fs == Usable(Locs \cup {"OutOfRange"})
        IN  /\ \A i, j \in DOMAIN blocks : blocks[i].geoid = blocks[j].geoid => i = j
            /\ Geoids(blocks) = {fs[i].GEOID : i \in DOMAIN fs}
            /\ \A b \in Range(blocks) :
                  /\ b.centroid = LastWith(fs, b.geoid).INTPT
                  /\ b.population = LastWith(fs, b.geoid).POP100

\* C25, as claimed: in every document written no two points share an id and
\* no two pops share an id, and the pop ids are "0", "1", ... in the order of
\* pops, from "0" again in every document.
C25_UniqueIds ==
    \A p \in DOMAIN disk :
        /\ \A i, j \in DOMAIN disk[p].points :
              disk[p].points[i].id = disk[p].points[j].id => i = j
        /\ \A i, j \in DOMAIN disk[p].pops :
              disk[p].pops[i].id = disk[p].pops[j].id => i = j
        /\ \A i \in DOMAIN disk[p].pops : disk[p].pops[i].id = ToString(i - 1)

\* C26, as claimed: ingestion drops the records whose coordinates are
\* missing, non-numeric or out of range and keeps all others, so that every
\* block, cluster and point lies at a valid coordinate.
C26_InvalidCoordinatesDropped ==
    /\ Ingested =>
          /\ Len(blocks) = Len(Usable(Locs))
          /\ \A b \in Range(blocks) : b.centroid \in Locs
          /\ \A c \in Range(clusters) : c.centroid \in Locs
    /\ \A pt \in WrittenPoints : pt.location \in Locs

\* C27: at every stage (the fetched blocks, the employment data of whichever
\* strategy, the active and the sorted blocks, the clusters and their members,
\* the points of the written documents) population >= 0 and jobs >= 0.
C27_NonNegative ==
    /\ \A b \in Range(blocks) \cup Range(activeBlocks) \cup Range(sortedBlocks) :
          /\ b.population >= 0
          /\ JobsOf(employmentData, b.geoid) >= 0
    /\ \A g \in DOMAIN employmentData : employmentData[g] >= 0
    /\ \A c \in Range(clusters) :
          /\ c.population >= 0
          /\ c.jobs >= 0
          /\ \A b \in Range(c.subBlocks) : b.population >= 0
    /\ \A pt \in WrittenPoints : pt.residents >= 0 /\ pt.jobs >= 0

\* A document was written from the capacity heuristic, with a point of no
\* residents (the block that got the buildings' jobs) and a point of no jobs
C27_Witness ==
    \E p \in DOMAIN disk :
        /\ Len(world[p].buildings) > 0
        /\ world[p].stateFips \notin fipsToPostal
        /\ \E pt \in Range(disk[p].points) : pt.residents = 0 /\ pt.jobs > 0
        /\ \E pt \in Range(disk[p].points) : pt.residents > 0 /\ pt.jobs = 0

\* The sizes of the flow records that leave cluster o
Leaving(o) ==
    SumSeq([k \in DOMAIN flows |->
              IF flows[k].residenceId = clusters[o].geoid THEN flows[k].size ELSE 0])

\* C28, as claimed: the sizes of the flow records leaving an origin, over all
\* destinations and all split records, sum to at most the origin's adjusted
\* population.
C28_OutflowWithinPopulation ==
    pc = "format" => \A o \in DOMAIN clusters : Leaving(o) <= Adjusted(o)

\* The clusters that generateCommuteFlows treats as origins
Origins == {i \in DOMAIN clusters : IsOrigin(Adjusted(i))}

RECURSIVE Applied(_)
Applied(k) ==
    IF k = 0 THEN <<>> ELSE PatcherExec(packagesToRun[k], Applied(k - 1))

\* C29: the packages run one at a time in packagesToRun order.  The k-th
\* patcherExec receives exactly the contents left by the packages before it;
\* the only Promise that can be unsettled is that of the package invoked
\* last, and until it resolves fileContents is what that package received;
\* the files are written only after the last package has finished, and with
\* its result.
C29_PackagesOneAtATime ==
    /\ Len(received) = invoked
    /\ \A k \in DOMAIN received : received[k] = Applied(k - 1)
    /\ DOMAIN pending \subseteq {invoked}
    /\ patchPc = "sequence" =>
          fileContents = IF DOMAIN pending = {} THEN Applied(invoked)
                         ELSE Applied(invoked - 1)
    /\ written # <<>> <=> patchPc = "written"
    /\ patchPc = "written" =>
          /\ invoked = Len(packagesToRun)
          /\ DOMAIN pending = {}
          /\ written = <<Applied(Len(packagesToRun))>>

\* The files were written after three packages, a Promise-returning one
\* between two others, the first and the last of different names
C29_Witness ==
    /\ patchPc = "written"
    /\ Len(packagesToRun) = MaxPackages
    /\ packagesToRun[2].kind = "async"
    /\ packagesToRun[3].kind = "sync"
    /\ packagesToRun[1].name # packagesToRun[3].name
    /\ received[3] = <<packagesToRun[1].name, packagesToRun[2].name>>

====
